---- MODULE Spec2Model ----
(***************************************************************************)
(* runall (src/src/main.rs): a supervisor that spawns one `bash -c cmd`    *)
(* child per command, forwards each child's stdout and stderr line by line *)
(* with a padded label, relays Ctrl-C as SIGTERM through one bounded(1)    *)
(* channel and one relay thread per child, and waits for the children in   *)
(* the order they were given.                                              *)
(*                                                                         *)
(* Strings are sequences of one-character strings, so that formatting,     *)
(* line splitting and console contents are computed, not assumed.          *)
(***************************************************************************)
EXTENDS Integers, Sequences, FiniteSets, TLC

\* ------------------------------------------------------------- bounds
MaxCmds == 2         \* commands on the command line
MaxInterrupts == 2   \* SIGINTs delivered to the supervisor during a run
MaxOut == 2          \* bytes written by all children together
MaxIoErrs == 1       \* I/O errors injected into pipe reads
MaxNames == 2        \* --names values on the command line
MaxNameLen == 3      \* characters of one --names value
MaxLine == 4         \* bytes a child has written before its forwarder runs

Cmds == 1..MaxCmds
Streams == {"stdout", "stderr"}
NL == "\n"
BAD == "#FF"                      \* a byte that is not valid UTF-8
OutChars == {"a", NL, BAD}        \* what a child may write, one byte at a time
COMMA == ","
WIDE == "#C3A9"                   \* one character that is two bytes of UTF-8
NameChars == {"a", COMMA, WIDE}   \* the characters of a --names value

VARIABLES
    ncmds,       \* args.commands.len()
    hasNames,    \* args.names.is_some()
    argNames,    \* args.names (when Some)
    names,       \* run: names
    prefixes,    \* run: prefixes
    pc,          \* main thread: main, start, spawn, install, wait, done,
                 \* panicked, killed
    nspawned,    \* Process values built so far (procs)
    nwaited,     \* procs already waited for (and dropped)
    child,       \* OS state of each child: none, running, exited
    reaped,      \* the child was collected by proc.wait(): its pid is free again
    gotTerm,     \* the child has been delivered a SIGTERM
    outOfOrder,  \* some child exited while a child given before it still ran
    stray,       \* SIGTERMs sent to a pid whose child was already reaped
    chan,        \* messages queued in each child's bounded(1) stop channel
    relay,       \* relay thread: none, recv, term, done, panicked
    sigterms,    \* kill -SIGTERM commands run for each child's pid
    installed,   \* the ctrlc handler is installed
    stopSenders, \* run: stop_senders, as the children the senders belong to
    pending,     \* SIGINTs received and not yet handled by the ctrlc thread
    hpc,         \* ctrlc thread: 0 idle, k = about to try_send on sender k
    broadcasts,  \* handler invocations started
    accepted,    \* try_send calls that returned Ok
    failLog,     \* "error sending stop signal" lines logged per sender
    runAtFire,   \* children running when the handler fired for the first time
    pipe,        \* bytes written to each stream and not yet read
    written,     \* every byte a child wrote to each stream
    line,        \* each forwarder's accumulator (String line)
    fpc,         \* forwarder thread: none, read (in its loop), done
    console,     \* bytes print!-ed to the supervisor's stdout
    nprinted,    \* print! calls made by each forwarder
    readErrLog,  \* "error reading line" lines logged per forwarder
    ioErrs       \* I/O errors injected so far

mainVars ==
    <<ncmds, hasNames, argNames, names, prefixes, pc, nspawned, nwaited, installed,
      stopSenders>>
childVars == <<child, reaped, gotTerm, outOfOrder, stray>>
relayVars == <<chan, relay, sigterms>>
hVars == <<pending, hpc, broadcasts, accepted, failLog, runAtFire>>
fwdVars == <<pipe, written, line, fpc, console, nprinted, readErrLog, ioErrs>>
vars == <<mainVars, childVars, relayVars, hVars, fwdVars>>

\* ------------------------------------------------------------- strings
Min(a, b) == IF a < b THEN a ELSE b

\* The strings of at most n characters, and the lists of 1..n of them.
StringsUpTo(n) == UNION {[1..k -> NameChars] : k \in 0..n}

NameLists == UNION {[1..k -> StringsUpTo(MaxNameLen)] : k \in 1..MaxNames}

HasComma(str) == \E k \in 1..Len(str) : str[k] = COMMA

FirstComma(str) ==
    CHOOSE k \in 1..Len(str) : str[k] = COMMA /\ \A j \in 1..(k - 1) : str[j] # COMMA

RECURSIVE SplitComma(_)
\* str.split(',').map(|s| s.to_string()).collect(): one more piece than
\* there are commas, empty pieces included.
SplitComma(str) ==
    IF HasComma(str)
    THEN <<SubSeq(str, 1, FirstComma(str) - 1)>>
             \o SplitComma(SubSeq(str, FirstComma(str) + 1, Len(str)))
    ELSE <<str>>

\* The bytes of the UTF-8 encoding of one character.
Utf8Len(c) == IF c = WIDE THEN 2 ELSE 1

RECURSIVE ByteLen(_)
\* String::len(): the length of the string in bytes
ByteLen(str) ==
    IF str = <<>> THEN 0 ELSE Utf8Len(Head(str)) + ByteLen(Tail(str))

RECURSIVE MaxLen(_)
\* names.iter().map(|n| n.len()).max().unwrap_or(0)
MaxLen(ns) ==
    IF ns = <<>> THEN 0
    ELSE LET m == MaxLen(Tail(ns))
         IN  IF ByteLen(Head(ns)) > m THEN ByteLen(Head(ns)) ELSE m

Digits == <<"0", "1", "2", "3", "4", "5", "6", "7", "8", "9">>

RECURSIVE Decimal(_)
\* format!("{}", n) for an unsigned n
Decimal(n) ==
    IF n < 10 THEN <<Digits[n + 1]>>
    ELSE Decimal(n \div 10) \o <<Digits[(n % 10) + 1]>>

\* format!("cmd-{}", i + 1), for the 1-based position k = i + 1
DefaultName(k) == <<"c", "m", "d", "-">> \o Decimal(k)

DefaultNames(n) == [k \in 1..n |-> DefaultName(k)]

Spaces(n) == [k \in 1..n |-> " "]

\* format!("[{name}]{:width$}", "", width = name_padding - name.len()):
\* the empty string padded to width characters is width spaces.
Prefix(name, padding) == <<"[">> \o name \o <<"]">> \o Spaces(padding - ByteLen(name))

PrefixesOf(ns) == [k \in 1..Len(ns) |-> Prefix(ns[k], MaxLen(ns))]

\* ------------------------------------------------------------- main thread
\* The process is running: main has neither returned nor panicked, and the
\* process was not killed by a signal. Every thread stops with the process.
Alive == pc \in {"main", "start", "spawn", "install", "wait"}

\* The zip of commands, names and prefixes ends with the shortest of them.
NProcs == Min(ncmds, Len(names))

Init ==
    /\ ncmds \in 0..MaxCmds
    /\ hasNames = FALSE
    /\ argNames = <<>>
    /\ names = <<>>
    /\ prefixes = <<>>
    /\ pc = "start"
    /\ nspawned = 0
    /\ nwaited = 0
    /\ installed = FALSE
    /\ stopSenders = <<>>
    /\ child = [i \in Cmds |-> "none"]
    /\ reaped = [i \in Cmds |-> FALSE]
    /\ gotTerm = [i \in Cmds |-> FALSE]
    /\ outOfOrder = FALSE
    /\ stray = [i \in Cmds |-> 0]
    /\ chan = [i \in Cmds |-> 0]
    /\ relay = [i \in Cmds |-> "none"]
    /\ sigterms = [i \in Cmds |-> 0]
    /\ pending = 0
    /\ hpc = 0
    /\ broadcasts = 0
    /\ accepted = [i \in Cmds |-> 0]
    /\ failLog = [i \in Cmds |-> 0]
    /\ runAtFire = {}
    /\ pipe = [i \in Cmds |-> [s \in Streams |-> <<>>]]
    /\ written = [i \in Cmds |-> [s \in Streams |-> <<>>]]
    /\ line = [i \in Cmds |-> [s \in Streams |-> <<>>]]
    /\ fpc = [i \in Cmds |-> [s \in Streams |-> "none"]]
    /\ console = <<>>
    /\ nprinted = [i \in Cmds |-> [s \in Streams |-> 0]]
    /\ readErrLog = [i \in Cmds |-> [s \in Streams |-> 0]]
    /\ ioErrs = 0

\* The state after Args::parse() for a command line with or without --names.
InitNames ==
    /\ ncmds \in 0..MaxCmds
    /\ hasNames \in BOOLEAN
    /\ argNames \in (IF hasNames THEN NameLists ELSE {<<>>})
    /\ names = <<>>
    /\ prefixes = <<>>
    /\ pc = "main"
    /\ nspawned = 0
    /\ nwaited = 0
    /\ installed = FALSE
    /\ stopSenders = <<>>
    /\ child = [i \in Cmds |-> "none"]
    /\ reaped = [i \in Cmds |-> FALSE]
    /\ gotTerm = [i \in Cmds |-> FALSE]
    /\ outOfOrder = FALSE
    /\ stray = [i \in Cmds |-> 0]
    /\ chan = [i \in Cmds |-> 0]
    /\ relay = [i \in Cmds |-> "none"]
    /\ sigterms = [i \in Cmds |-> 0]
    /\ pending = 0
    /\ hpc = 0
    /\ broadcasts = 0
    /\ accepted = [i \in Cmds |-> 0]
    /\ failLog = [i \in Cmds |-> 0]
    /\ runAtFire = {}
    /\ pipe = [i \in Cmds |-> [s \in Streams |-> <<>>]]
    /\ written = [i \in Cmds |-> [s \in Streams |-> <<>>]]
    /\ line = [i \in Cmds |-> [s \in Streams |-> <<>>]]
    /\ fpc = [i \in Cmds |-> [s \in Streams |-> "none"]]
    /\ console = <<>>
    /\ nprinted = [i \in Cmds |-> [s \in Streams |-> 0]]
    /\ readErrLog = [i \in Cmds |-> [s \in Streams |-> 0]]
    /\ ioErrs = 0

\* fixup_names, lines 172-177: a list of one name is replaced by the pieces
\* of that name.
FixupSplit(ns) == IF Len(ns) = 1 THEN SplitComma(ns[1]) ELSE ns

\* fixup_names: the list as it is left when the function returns.
FixupNames(ns, n) == IF Len(ns) = n THEN ns ELSE FixupSplit(ns)

\* fixup_names reaches its panic!: neither the list as given nor the list
\* after the split has n names.
FixupPanics(ns, n) == Len(ns) # n /\ Len(FixupSplit(ns)) # n

\* main, lines 186-190: fixup_names is called when --names was given; run
\* is entered when it returns.
MainFixup ==
    /\ pc = "main"
    /\ IF hasNames
       THEN /\ argNames' = FixupNames(argNames, ncmds)
            /\ pc' = IF FixupPanics(argNames, ncmds) THEN "panicked" ELSE "start"
       ELSE /\ argNames' = argNames
            /\ pc' = "start"
    /\ UNCHANGED <<ncmds, hasNames, names, prefixes, nspawned, nwaited, installed, stopSenders>>
    /\ UNCHANGED <<childVars, relayVars, hVars, fwdVars>>

\* run, lines 128-139: names (given or default) and the padded prefixes.
RunStart ==
    /\ pc = "start"
    /\ names' = IF hasNames THEN argNames ELSE DefaultNames(ncmds)
    /\ prefixes' = PrefixesOf(names')
    /\ pc' = "spawn"
    /\ UNCHANGED <<ncmds, hasNames, argNames, nspawned, nwaited, installed, stopSenders>>
    /\ UNCHANGED <<childVars, relayVars, hVars, fwdVars>>

\* Process::spawn for the next command: the child runs, its two forwarder
\* threads and its relay thread are started, its stop channel is empty.
Spawn ==
    /\ pc = "spawn"
    /\ nspawned < NProcs
    /\ LET i == nspawned + 1 IN
        /\ child' = [child EXCEPT ![i] = "running"]
        /\ fpc' = [fpc EXCEPT ![i] = [s \in Streams |-> "read"]]
        /\ relay' = [relay EXCEPT ![i] = "recv"]
        /\ nspawned' = i
    /\ UNCHANGED <<ncmds, hasNames, argNames, names, prefixes, pc, nwaited, installed, stopSenders>>
    /\ UNCHANGED <<reaped, gotTerm, outOfOrder, stray, chan, sigterms>>
    /\ UNCHANGED <<hVars, pipe, written, line, console, nprinted, readErrLog, ioErrs>>

SpawnFailMutant ==
    /\ pc = "spawn"
    /\ nspawned < NProcs
    /\ nspawned' = nspawned + 1
    /\ UNCHANGED <<ncmds, hasNames, argNames, names, prefixes, pc, nwaited, installed, stopSenders>>
    /\ UNCHANGED <<childVars, relayVars, hVars, fwdVars>>

\* .spawn().expect("start process") fails: main panics, the process ends.
SpawnFail ==
    /\ pc = "spawn"
    /\ nspawned < NProcs
    /\ pc' = "panicked"
    /\ UNCHANGED <<ncmds, hasNames, argNames, names, prefixes, nspawned, nwaited, installed, stopSenders>>
    /\ UNCHANGED <<childVars, relayVars, hVars, fwdVars>>

StopSendersMutant(n) == [k \in 1..(n - 1) |-> k]

\* procs.iter().map(|p| p.stop_tx.clone()).collect(): one sender per
\* Process, in the order of procs.
StopSendersOf(n) == [k \in 1..n |-> k]

\* All commands are spawned: the collect() ends and stop_senders is built.
SpawnEnd ==
    /\ pc = "spawn"
    /\ nspawned = NProcs
    /\ stopSenders' = StopSendersOf(nspawned)
    /\ pc' = "install"
    /\ UNCHANGED <<ncmds, hasNames, argNames, names, prefixes, nspawned, nwaited, installed>>
    /\ UNCHANGED <<childVars, relayVars, hVars, fwdVars>>

\* ctrlc::set_handler(..) returns Ok, the closure owning stop_senders: the
\* wait loop begins.
Install ==
    /\ pc = "install"
    /\ installed' = TRUE
    /\ pc' = IF NProcs = 0 THEN "done" ELSE "wait"
    /\ UNCHANGED <<ncmds, hasNames, argNames, names, prefixes, nspawned, nwaited, stopSenders>>
    /\ UNCHANGED <<childVars, relayVars, hVars, fwdVars>>

\* ctrlc::set_handler(..).expect("set ctrl-c handler") fails.
InstallFail ==
    /\ pc = "install"
    /\ pc' = "panicked"
    /\ UNCHANGED <<ncmds, hasNames, argNames, names, prefixes, nspawned, nwaited, installed, stopSenders>>
    /\ UNCHANGED <<childVars, relayVars, hVars, fwdVars>>

WaitReturnsMutant(i) == child[i] # "none"

WaitReturnsOnTerm(i) == child[i] = "exited" \/ gotTerm[i]

\* proc.wait() returns only for a child that has exited.
WaitReturns(i) == child[i] = "exited"

\* One iteration of `for mut proc in procs { proc.wait(); }`: the wait
\* returns, the child is reaped and proc is dropped.
Wait ==
    /\ pc = "wait"
    /\ LET i == nwaited + 1 IN
        /\ WaitReturns(i)
        /\ reaped' = [reaped EXCEPT ![i] = TRUE]
        /\ nwaited' = i
        /\ pc' = IF i = NProcs THEN "done" ELSE "wait"
    /\ UNCHANGED <<ncmds, hasNames, argNames, names, prefixes, nspawned, installed, stopSenders>>
    /\ UNCHANGED <<child, gotTerm, outOfOrder, stray>>
    /\ UNCHANGED <<relayVars, hVars, fwdVars>>

\* self.proc.wait().expect("wait for process") fails: main panics.
WaitFail ==
    /\ pc = "wait"
    /\ pc' = "panicked"
    /\ UNCHANGED <<ncmds, hasNames, argNames, names, prefixes, nspawned, nwaited, installed, stopSenders>>
    /\ UNCHANGED <<childVars, relayVars, hVars, fwdVars>>

\* ------------------------------------------------------------- children
\* A running child exits by itself (its command ends, or something other
\* than the supervisor ends it).
ChildExitSelf(i) ==
    /\ Alive
    /\ child[i] = "running"
    /\ child' = [child EXCEPT ![i] = "exited"]
    /\ outOfOrder' = (outOfOrder \/ \E j \in 1..(i - 1) : child[j] = "running")
    /\ UNCHANGED <<reaped, gotTerm, stray>>
    /\ UNCHANGED <<mainVars, relayVars, hVars, fwdVars>>

\* A child that has been delivered SIGTERM exits because of it.
ChildExitOnTerm(i) ==
    /\ Alive
    /\ child[i] = "running"
    /\ gotTerm[i]
    /\ child' = [child EXCEPT ![i] = "exited"]
    /\ outOfOrder' = (outOfOrder \/ \E j \in 1..(i - 1) : child[j] = "running")
    /\ UNCHANGED <<reaped, gotTerm, stray>>
    /\ UNCHANGED <<mainVars, relayVars, hVars, fwdVars>>

\* ------------------------------------------------------------- relay thread
\* stop_rx.recv() returns the queued message; "sending sigterm" is logged.
RelayRecv(i) ==
    /\ Alive
    /\ relay[i] = "recv"
    /\ chan[i] > 0
    /\ chan' = [chan EXCEPT ![i] = @ - 1]
    /\ relay' = [relay EXCEPT ![i] = "term"]
    /\ UNCHANGED <<sigterms, mainVars, childVars, hVars, fwdVars>>

RelayAfterTermMutant == "recv"

\* The relay closure ends after one sigterm(pid): stop_rx is dropped.
RelayAfterTerm == "done"

\* sigterm(pid): `kill -SIGTERM pid` is spawned and waited for. The signal
\* reaches the child when it still runs; a zombie ignores it; a reaped
\* child's pid no longer names the child.
RelaySigterm(i) ==
    /\ Alive
    /\ relay[i] = "term"
    /\ sigterms' = [sigterms EXCEPT ![i] = @ + 1]
    /\ relay' = [relay EXCEPT ![i] = RelayAfterTerm]
    /\ gotTerm' = [gotTerm EXCEPT ![i] = @ \/ child[i] = "running"]
    /\ stray' = [stray EXCEPT ![i] = IF reaped[i] THEN @ + 1 ELSE @]
    /\ UNCHANGED <<chan, child, reaped, outOfOrder>>
    /\ UNCHANGED <<mainVars, hVars, fwdVars>>

\* .spawn().expect("send sigterm") or .wait().expect("wait for sigterm")
\* fails: the relay thread panics. Only that thread ends.
RelayKillFail(i) ==
    /\ Alive
    /\ relay[i] = "term"
    /\ relay' = [relay EXCEPT ![i] = "panicked"]
    /\ UNCHANGED <<chan, sigterms, mainVars, childVars, hVars, fwdVars>>

\* ------------------------------------------------------------- interrupts
\* A SIGINT reaches the supervisor. With the handler installed the ctrlc
\* thread is woken; before that the signal has its default action.
Interrupt ==
    /\ Alive
    /\ pending + broadcasts < MaxInterrupts
    /\ IF installed
       THEN /\ pending' = pending + 1
            /\ pc' = pc
       ELSE /\ pending' = pending
            /\ pc' = "killed"
    /\ UNCHANGED <<ncmds, hasNames, argNames, names, prefixes, nspawned, nwaited, installed, stopSenders>>
    /\ UNCHANGED <<hpc, broadcasts, accepted, failLog, runAtFire>>
    /\ UNCHANGED <<childVars, relayVars, fwdVars>>

\* The handler closure starts: "got ctrl-c" is logged.
HandlerStart ==
    /\ Alive
    /\ installed
    /\ hpc = 0
    /\ pending > 0
    /\ pending' = pending - 1
    /\ broadcasts' = broadcasts + 1
    /\ runAtFire' = IF broadcasts = 0
                    THEN {i \in Cmds : child[i] = "running"}
                    ELSE runAtFire
    /\ hpc' = IF stopSenders = <<>> THEN 0 ELSE 1
    /\ UNCHANGED <<accepted, failLog>>
    /\ UNCHANGED <<mainVars, childVars, relayVars, fwdVars>>

ReceiverDropped(i) == FALSE

\* The receiver of channel i still exists: the relay closure owns stop_rx
\* until the thread ends.
ReceiverAlive(i) == relay[i] \in {"recv", "term"}

TrySendUnbounded(i) == ReceiverAlive(i)

\* stop_tx.try_send(()) on a bounded(1) channel: Ok when the receiver exists
\* and the slot is free, Err(Full) or Err(Disconnected) otherwise.
TrySendOk(i) == ReceiverAlive(i) /\ chan[i] < 1

NextSenderMutant(k, ok) == IF ok /\ k < Len(stopSenders) THEN k + 1 ELSE 0

NextSenderFirstOnly(k, ok) == 0

\* `for stop_tx in &stop_senders`: the loop goes on to the next sender
\* whatever try_send returned.
NextSender(k, ok) == IF k < Len(stopSenders) THEN k + 1 ELSE 0

\* One iteration of the handler's loop: try_send, and on Err the line
\* "error sending stop signal" is logged.
HandlerSend ==
    /\ Alive
    /\ hpc > 0
    /\ LET i == stopSenders[hpc]
           ok == TrySendOk(i)
       IN  /\ chan' = [chan EXCEPT ![i] = IF ok THEN @ + 1 ELSE @]
           /\ accepted' = [accepted EXCEPT ![i] = IF ok THEN @ + 1 ELSE @]
           /\ failLog' = [failLog EXCEPT ![i] = IF ok THEN @ ELSE @ + 1]
           /\ hpc' = NextSender(hpc, ok)
    /\ UNCHANGED <<pending, broadcasts, runAtFire>>
    /\ UNCHANGED <<relay, sigterms, mainVars, childVars, fwdVars>>

\* ------------------------------------------------------------- forwarders
HasNL(bytes) == \E k \in 1..Len(bytes) : bytes[k] = NL

FirstNL(bytes) ==
    CHOOSE k \in 1..Len(bytes) : bytes[k] = NL /\ \A j \in 1..(k - 1) : bytes[j] # NL

\* str::from_utf8 of the bytes read by one read_line call
ValidUtf8(bytes) == \A k \in 1..Len(bytes) : bytes[k] # BAD

\* The write end of a child's pipe is closed when the child has exited.
PipeClosed(i) == child[i] = "exited"

\* read_line returns once a newline has arrived or the pipe is at its end.
ReadReady(i, s) == HasNL(pipe[i][s]) \/ PipeClosed(i)

\* The bytes one read_line call consumes: through the first newline, or
\* everything left when the pipe ends without one.
ReadTake(bytes) ==
    IF HasNL(bytes) THEN SubSeq(bytes, 1, FirstNL(bytes)) ELSE bytes

RECURSIVE OutUpTo(_)
\* bytes written so far by children 1..k
OutUpTo(k) ==
    IF k = 0 THEN 0
    ELSE OutUpTo(k - 1) + Len(written[k]["stdout"]) + Len(written[k]["stderr"])

\* A running child writes one byte to its stdout or stderr.
ChildWrite(i, s, c) ==
    /\ Alive
    /\ child[i] = "running"
    /\ OutUpTo(MaxCmds) < MaxOut
    /\ pipe' = [pipe EXCEPT ![i][s] = Append(@, c)]
    /\ written' = [written EXCEPT ![i][s] = Append(@, c)]
    /\ UNCHANGED <<line, fpc, console, nprinted, readErrLog, ioErrs>>
    /\ UNCHANGED <<mainVars, childVars, relayVars, hVars>>

\* The Err arm logs and has no break: the loop calls read_line again.
AfterErr == "read"

EndOfLoopMutant(taken) == taken = <<>> \/ taken[Len(taken)] # NL

\* Ok(0) => break: the loop ends only when read_line consumed nothing.
EndOfLoop(taken) == taken = <<>>

PrintedMutant(prefix, text) == prefix \o text

\* print!("{prefix} {line}"): one write under the stdout lock.
Printed(prefix, text) == prefix \o <<" ">> \o text

ClearedMutant(text) == text

\* line.clear()
Cleared(text) == <<>>

\* One iteration of the loop in which read_line returns without an I/O
\* error. Ok(0) ends the loop. Bytes that are not UTF-8 are consumed, leave
\* line as it was and are logged as an error. Otherwise the bytes are
\* appended to line, and the Ok(_) arm prints the line and clears it.
FwdRead(i, s) ==
    /\ Alive
    /\ fpc[i][s] = "read"
    /\ ReadReady(i, s)
    /\ LET taken == ReadTake(pipe[i][s]) IN
        /\ pipe' = [pipe EXCEPT ![i][s] = SubSeq(@, Len(taken) + 1, Len(@))]
        /\ IF EndOfLoop(taken)
           THEN /\ fpc' = [fpc EXCEPT ![i][s] = "done"]
                /\ UNCHANGED <<line, readErrLog, console, nprinted>>
           ELSE IF ~ValidUtf8(taken)
           THEN /\ fpc' = [fpc EXCEPT ![i][s] = AfterErr]
                /\ readErrLog' = [readErrLog EXCEPT ![i][s] = @ + 1]
                /\ UNCHANGED <<line, console, nprinted>>
           ELSE /\ console' = console \o Printed(prefixes[i], line[i][s] \o taken)
                /\ line' = [line EXCEPT ![i][s] = Cleared(@ \o taken)]
                /\ nprinted' = [nprinted EXCEPT ![i][s] = @ + 1]
                /\ UNCHANGED <<fpc, readErrLog>>
    /\ UNCHANGED <<written, ioErrs>>
    /\ UNCHANGED <<mainVars, childVars, relayVars, hVars>>

\* read_line returns an I/O error after consuming k bytes that hold no
\* newline: they stay in line when they are UTF-8; the error is logged.
FwdReadIoErr(i, s) ==
    /\ Alive
    /\ fpc[i][s] = "read"
    /\ ioErrs < MaxIoErrs
    /\ \E k \in 0..Len(pipe[i][s]) :
        LET taken == SubSeq(pipe[i][s], 1, k) IN
        /\ ~HasNL(taken)
        /\ pipe' = [pipe EXCEPT ![i][s] = SubSeq(@, k + 1, Len(@))]
        /\ line' = [line EXCEPT ![i][s] = IF ValidUtf8(taken) THEN @ \o taken ELSE @]
    /\ ioErrs' = ioErrs + 1
    /\ readErrLog' = [readErrLog EXCEPT ![i][s] = @ + 1]
    /\ fpc' = [fpc EXCEPT ![i][s] = AfterErr]
    /\ UNCHANGED <<written, console, nprinted>>
    /\ UNCHANGED <<mainVars, childVars, relayVars, hVars>>

NextFwd ==
    \/ RunStart
    \/ Spawn
    \/ SpawnEnd
    \/ Install
    \/ Wait
    \/ \E i \in Cmds : ChildExitSelf(i)
    \/ \E i \in Cmds, s \in Streams, c \in OutChars : ChildWrite(i, s, c)
    \/ \E i \in Cmds, s \in Streams : FwdRead(i, s)
    \/ \E i \in Cmds, s \in Streams : FwdReadIoErr(i, s)

\* The supervisor, the children's output and the forwarder threads, in runs
\* without interrupts.
FwdSpec == Init /\ [][NextFwd]_vars

\* The texts of at most n bytes a child may have written.
TextsUpTo(n) == UNION {[1..k -> OutChars] : k \in 0..n}

\* A run of one command with default name, at the start of its wait loop:
\* the child runs and has written some text to its stdout, of which its
\* forwarder has read nothing yet.
InitLine ==
    /\ ncmds = 1
    /\ hasNames = FALSE
    /\ argNames = <<>>
    /\ names = DefaultNames(1)
    /\ prefixes = PrefixesOf(DefaultNames(1))
    /\ pc = "wait"
    /\ nspawned = 1
    /\ nwaited = 0
    /\ installed = TRUE
    /\ stopSenders = StopSendersOf(1)
    /\ child = [i \in Cmds |-> IF i = 1 THEN "running" ELSE "none"]
    /\ reaped = [i \in Cmds |-> FALSE]
    /\ gotTerm = [i \in Cmds |-> FALSE]
    /\ outOfOrder = FALSE
    /\ stray = [i \in Cmds |-> 0]
    /\ chan = [i \in Cmds |-> 0]
    /\ relay = [i \in Cmds |-> IF i = 1 THEN "recv" ELSE "none"]
    /\ sigterms = [i \in Cmds |-> 0]
    /\ pending = 0
    /\ hpc = 0
    /\ broadcasts = 0
    /\ accepted = [i \in Cmds |-> 0]
    /\ failLog = [i \in Cmds |-> 0]
    /\ runAtFire = {}
    /\ \E text \in TextsUpTo(MaxLine) :
        /\ written = [i \in Cmds |-> [s \in Streams |->
                        IF i = 1 /\ s = "stdout" THEN text ELSE <<>>]]
        /\ pipe = written
    /\ line = [i \in Cmds |-> [s \in Streams |-> <<>>]]
    /\ fpc = [i \in Cmds |-> [s \in Streams |-> IF i = 1 THEN "read" ELSE "none"]]
    /\ console = <<>>
    /\ nprinted = [i \in Cmds |-> [s \in Streams |-> 0]]
    /\ readErrLog = [i \in Cmds |-> [s \in Streams |-> 0]]
    /\ ioErrs = 0

NextLine ==
    \/ Wait
    \/ \E i \in Cmds : ChildExitSelf(i)
    \/ \E i \in Cmds, s \in Streams : FwdRead(i, s)
    \/ \E i \in Cmds, s \in Streams : FwdReadIoErr(i, s)

\* The forwarders of one child working through a text of several lines.
LineSpec == InitLine /\ [][NextLine]_vars

\* ------------------------------------------------------------- names
NextNames ==
    \/ MainFixup
    \/ RunStart
    \/ Spawn
    \/ SpawnEnd
    \/ Install

\* The program from Args::parse() to the installed handler, for every
\* command count and every --names list within the bounds.
NamesSpec == InitNames /\ [][NextNames]_vars

\* ------------------------------------------------------------- supervision
Next ==
    \/ RunStart
    \/ Spawn
    \/ SpawnFail
    \/ SpawnEnd
    \/ Install
    \/ InstallFail
    \/ Wait
    \/ WaitFail
    \/ Interrupt
    \/ HandlerStart
    \/ HandlerSend
    \/ \E i \in Cmds : ChildExitSelf(i)
    \/ \E i \in Cmds : ChildExitOnTerm(i)
    \/ \E i \in Cmds : RelayRecv(i)
    \/ \E i \in Cmds : RelaySigterm(i)
    \/ \E i \in Cmds : RelayKillFail(i)

\* The supervisor, the relay threads, the interrupt handler and the
\* children, with every OS call free to fail.
Spec == Init /\ [][Next]_vars

\* The steps of the main thread, of the ctrlc thread and of relay thread i
\* that are not a failing OS call.
MainStep == RunStart \/ Spawn \/ SpawnEnd \/ Install \/ Wait

HandlerStep == HandlerStart \/ HandlerSend

RelayStep(i) == RelayRecv(i) \/ RelaySigterm(i)

\* The scheduler runs every thread that can take a step. Interrupts,
\* children's exits and failing OS calls are the environment's and are
\* never forced.
Fairness ==
    /\ WF_vars(MainStep)
    /\ WF_vars(HandlerStep)
    /\ \A i \in Cmds : WF_vars(RelayStep(i))

\* The steps that are not a failing OS call.
NextOk ==
    \/ RunStart
    \/ Spawn
    \/ SpawnEnd
    \/ Install
    \/ Wait
    \/ Interrupt
    \/ HandlerStart
    \/ HandlerSend
    \/ \E i \in Cmds : ChildExitSelf(i)
    \/ \E i \in Cmds : ChildExitOnTerm(i)
    \/ \E i \in Cmds : RelayRecv(i)
    \/ \E i \in Cmds : RelaySigterm(i)

\* Runs in which every OS call succeeds, under fair scheduling of the
\* threads.
FairSpec == Init /\ [][NextOk]_vars /\ Fairness

\* FairSpec with children that exit once they have been delivered SIGTERM.
ObeySpec == FairSpec /\ \A i \in Cmds : WF_vars(ChildExitOnTerm(i))

\* ------------------------------------------------------------- properties
Spawned == 1..nspawned

AllExited == \A i \in Spawned : child[i] = "exited"

\* try_send calls made so far on sender i
Tried(i) == accepted[i] + failLog[i]

\* C1: whenever run has returned, every command was spawned and every
\* spawned child has exited, whatever the order of the exits and whether a
\* child exited by itself or after a SIGTERM.
C1_ReturnsOnlyAfterAllExited ==
    pc = "done" => (nspawned = NProcs /\ AllExited)

\* C1 witness: run returned after two children exited in the order opposite
\* to the waits, one after a SIGTERM and one without any.
C1_Witness ==
    /\ pc = "done"
    /\ outOfOrder
    /\ \E i \in Spawned : gotTerm[i]
    /\ \E i \in Spawned : ~gotTerm[i]

FirstBroadcastAccepted ==
    (broadcasts = 1 /\ hpc = 0) =>
        \A i \in 1..NProcs : accepted[i] = 1 /\ failLog[i] = 0

C3_Original ==
    pc \in {"done", "killed"} => AllExited

C5_AtMostOneSigterm ==
    \A i \in Cmds : sigterms[i] <= 1 /\ stray[i] <= 1 /\ chan[i] <= 1

\* C5 witness: a child was requested twice, the second request even being
\* accepted by the channel, and was sent one SIGTERM.
C5_Witness ==
    \E i \in Cmds : accepted[i] = 2 /\ sigterms[i] = 1 /\ relay[i] = "done"

\* C10: a broadcast in progress can always take its next step, every
\* try_send is either accepted or logged, and a completed broadcast has
\* tried every sender, whatever the earlier sends returned.
C10_BroadcastTriesEverySender ==
    /\ (Alive /\ hpc > 0) => ENABLED HandlerSend
    /\ hpc \in 0..NProcs
    /\ \A i \in 1..NProcs :
        Tried(i) = IF hpc = 0 \/ i < hpc THEN broadcasts ELSE broadcasts - 1

\* C10 witness: in a completed second broadcast the send to the first child
\* failed and was logged, and the second child was tried nevertheless.
C10_Witness ==
    /\ hpc = 0
    /\ broadcasts = 2
    /\ NProcs = 2
    /\ failLog[1] = 1
    /\ Tried(2) = 2

\* C13: the children that exist are always the first nspawned commands, a
\* spawn adds the next command only, a failed spawn ends the program at once
\* with the later commands never spawned, and the program gets past the
\* spawning only with a child for every command.
C13_SpawnAllOrNothing ==
    /\ [](/\ \A i \in Cmds : (child[i] # "none") <=> (i <= nspawned)
          /\ (pc \in {"install", "wait", "done"}) => (nspawned = ncmds))
    /\ [][/\ (nspawned' # nspawned) => (pc = "spawn" /\ nspawned' = nspawned + 1)
          /\ (pc = "spawn" /\ pc' # "spawn") =>
                (nspawned = ncmds \/ pc' \in {"panicked", "killed"})
          /\ (pc = "panicked") => (nspawned' = nspawned /\ child' = child)]_vars

\* C13 witness: the program aborted when the second of two commands could
\* not be spawned, the first one having been spawned.
C13_Witness ==
    /\ pc = "panicked"
    /\ ncmds = 2
    /\ nspawned = 1
    /\ child[1] # "none"
    /\ child[2] = "none"

\* C15 as stated, for its particular case: a child that had exited before
\* the handler fired for the first time is never sent a SIGTERM, and the
\* process id of a child that the supervisor's wait has reaped is never
\* signalled.
C15_Original ==
    \A i \in Spawned :
        (broadcasts > 0 /\ i \notin runAtFire) => (sigterms[i] = 0 \/ stray[i] = 0)

\* The senders of children 1..n, in that order.
SendersFor(n) ==
    /\ Len(stopSenders) = n
    /\ \A k \in 1..n : stopSenders[k] = k

\* C16: while the handler is installed its sender list holds one sender per
\* command, each of a spawned child whose relay thread was started; the list
\* is not changed by any step from the installation on; the installation
\* happens with every command spawned and no wait begun; and no wait begins
\* without the handler.
C16_SendersFixedBeforeInstall ==
    /\ [](installed =>
            /\ SendersFor(ncmds)
            /\ nspawned = ncmds
            /\ \A k \in 1..Len(stopSenders) : relay[stopSenders[k]] # "none")
    /\ []((pc = "wait" \/ nwaited > 0) => installed)
    /\ [][/\ (pc = "install" \/ installed) => stopSenders' = stopSenders
          /\ (installed' /\ ~installed) =>
                (pc = "install" /\ nspawned = ncmds /\ nwaited = 0 /\ pc' # "install")]_vars

\* C16 witness: the handler, installed with the senders of both children,
\* has broadcast on them while the supervisor waits.
C16_Witness ==
    /\ installed
    /\ pc = "wait"
    /\ SendersFor(2)
    /\ broadcasts > 0
    /\ hpc = 0
    /\ \A i \in 1..2 : accepted[i] > 0

\* C17 as stated: when an OS call that is treated as fatal has failed, in
\* the main thread or in a relay thread, the program is not running any
\* more.
C17_Original ==
    (pc = "panicked" \/ \E i \in Cmds : relay[i] = "panicked") => ~Alive

\* Child i has been delivered the SIGTERM and goes on running.
IgnoresTerm(i) == gotTerm[i] /\ child[i] = "running"

\* C18: while a child goes on running after its SIGTERM, the supervisor is
\* in its wait loop at or before that child's wait, which has not returned,
\* and run has not returned; that child has been sent one SIGTERM and no
\* step, of a further interrupt or of anything else, sends it another one or
\* changes its state other than its own exit.
C18_IgnoredSigtermHangs ==
    /\ [](\A i \in Cmds :
            IgnoresTerm(i) =>
                /\ pc = "wait"
                /\ nwaited < i
                /\ ~reaped[i]
                /\ sigterms[i] = 1)
    /\ [][\A i \in Cmds :
            IgnoresTerm(i) =>
                /\ sigterms'[i] = sigterms[i]
                /\ pc' = "wait"
                /\ child'[i] \in {"running", "exited"}]_vars

\* C18 witness: two interrupts have been handled completely, a child that
\* was sent its SIGTERM still runs, and the supervisor still waits.
C18_Witness ==
    /\ broadcasts = 2
    /\ pending = 0
    /\ hpc = 0
    /\ pc = "wait"
    /\ \E i \in Cmds : IgnoresTerm(i) /\ relay[i] = "done" /\ Tried(i) = 2

\* The relay thread of child i has taken a request from the channel.
Taken(i) == relay[i] \in {"term", "done", "panicked"}

RECURSIVE SplitLines(_)
\* The lines of a byte string, each with its terminator; the last one is
\* without terminator when the string does not end with one.
SplitLines(bytes) ==
    IF bytes = <<>> THEN <<>>
    ELSE IF HasNL(bytes)
    THEN <<SubSeq(bytes, 1, FirstNL(bytes))>>
             \o SplitLines(SubSeq(bytes, FirstNL(bytes) + 1, Len(bytes)))
    ELSE <<bytes>>

Terminated(text) == text # <<>> /\ text[Len(text)] = NL

\* text occurs in bytes as a contiguous part
Occurs(text, bytes) ==
    \E k \in 0..(Len(bytes) - Len(text)) : SubSeq(bytes, k + 1, k + Len(text)) = text

ConsoleLines == SplitLines(console)

NoReadError == \A i \in Cmds, s \in Streams : readErrLog[i][s] = 0

\* Every child wrote whole lines only.
OnlyWholeLines ==
    \A i \in Cmds, s \in Streams : written[i][s] = <<>> \/ Terminated(written[i][s])

\* C6 as stated, for runs without read errors in which the children wrote
\* whole lines only: when run has returned, every line a child wrote to its
\* stdout or stderr is a line of the console, prefixed with that child's
\* label.
C6_Original ==
    (pc = "done" /\ NoReadError /\ OnlyWholeLines) =>
        \A i \in Spawned, s \in Streams :
            LET ls == SplitLines(written[i][s]) IN
            \A k \in 1..Len(ls) :
                (Terminated(ls[k]) /\ ValidUtf8(ls[k])) =>
                    \E n \in 1..Len(ConsoleLines) :
                        ConsoleLines[n] = prefixes[i] \o <<" ">> \o ls[k]

\* C7 as stated, for runs without read errors: every complete line of the
\* console is one prefix, one space and one line written by that child to
\* one of its streams.
C7_Original ==
    NoReadError =>
        \A n \in 1..Len(ConsoleLines) :
            Terminated(ConsoleLines[n]) =>
                \E i \in Spawned, s \in Streams :
                    \E k \in 1..Len(SplitLines(written[i][s])) :
                        ConsoleLines[n] = prefixes[i] \o <<" ">> \o SplitLines(written[i][s])[k]

EndsUnterminated(i, s) ==
    /\ PipeClosed(i)
    /\ written[i][s] # <<>>
    /\ ~Terminated(written[i][s])

LastLine(bytes) == SplitLines(bytes)[Len(SplitLines(bytes))]

C9_Original ==
    [][\A i \in Cmds, s \in Streams :
        readErrLog[i][s] > 0 =>
            /\ nprinted'[i][s] = nprinted[i][s]
            /\ readErrLog'[i][s] = readErrLog[i][s]
            /\ Len(pipe'[i][s]) >= Len(pipe[i][s])]_vars

\* text is prefix, one space and a contiguous part of one line of bytes
OfOneLine(text, prefix, bytes) ==
    /\ Len(text) > Len(prefix)
    /\ SubSeq(text, 1, Len(prefix) + 1) = prefix \o <<" ">>
    /\ \E k \in 1..Len(SplitLines(bytes)) :
           Occurs(SubSeq(text, Len(prefix) + 2, Len(text)), SplitLines(bytes)[k])

\* C19 as stated, in what it says about carrying over: every line on the
\* console is the prefix of a child, a space and text of one single line of
\* one stream of that child, also after a read error.
C19_Original ==
    \A n \in 1..Len(ConsoleLines) :
        \E i \in Spawned, s \in Streams :
            OfOneLine(ConsoleLines[n], prefixes[i], written[i][s])

\* ------------------------------------------------------------- names
\* The list a single-element list stands for: its one name split on commas.
AfterSplit(ns) == IF Len(ns) = 1 THEN SplitComma(ns[1]) ELSE ns

\* C11 as stated: with a name list whose length after the single-element
\* comma split differs from the command count, the program is at most at
\* its abort and no command was spawned. (Splitting pieces that hold no comma
\* changes nothing, so the list fixup_names left gives the same count as the
\* list that was supplied.)
C11_Original ==
    (hasNames /\ Len(AfterSplit(argNames)) # ncmds) =>
        (pc \in {"main", "panicked"} /\ nspawned = 0)

\* C12 as stated: main's step for a list of exactly one name leaves the
\* pieces of that name as the list and enters run when there are as many
\* pieces as commands, and aborts otherwise.
C12_Original ==
    [][(pc = "main" /\ hasNames /\ Len(argNames) = 1) =>
        IF Len(SplitComma(argNames[1])) = ncmds
        THEN pc' = "start" /\ argNames' = SplitComma(argNames[1])
        ELSE pc' = "panicked"]_vars

\* The width of a text on the console: its number of characters (every
\* character of NameChars, "[", "]" and the space take one column).
Width(text) == Len(text)

\* C14 as stated: the prefixes of a run all have the same width on the
\* console, which is the width of the widest name and two more.
C14_Original ==
    \A j \in 1..Len(prefixes) :
        \E m \in 1..Len(names) :
            /\ \A k \in 1..Len(names) : Width(names[k]) <= Width(names[m])
            /\ Width(prefixes[j]) = Width(names[m]) + 2

====
